---- MODULE Spec2Model ----
(***************************************************************************)
(* Order synchronisation and notification scheduling of the Margiana       *)
(* Logistics bot: the orders table and the three ways a sync reaches it    *)
(* (api_server.py's POST /api/sync/order, bot.py's POST /api/sync/order,   *)
(* DatabaseManager.update_order_from_sync), the api-key check, and the     *)
(* notification service.                                                   *)
(***************************************************************************)
EXTENDS Integers, Sequences, FiniteSets, TLC

(***************************************************************************)
(* Bounds of the model.                                                    *)
(***************************************************************************)
MaxTime == 1
MaxNotifications == 2
MaxDays == 1

(***************************************************************************)
(* Values.  A Python/SQL value is None (NULL) or Some(v); a key that a     *)
(* dict or a JSON body does not carry is Absent.                           *)
(***************************************************************************)
None == <<>>
Some(v) == <<v>>
Absent == <<"absent", "key">>

OrderNumbers == {"ORD-1", "ORD-2"}

\* The columns of Order a sync payload can carry (one column of each kind:
\* the business key, the NOT NULL text, a nullable text without default, the
\* columns with a default: status, container_count, the document flags, and
\* two of the six milestone dates).
OrderColumns ==
    {"order_number", "client_name", "goods_type", "status",
     "container_count", "has_loading_photo", "departure_date", "arrival_iran_date"}

\* The fields of the request model OrderSyncData: the columns plus sync_type
\* and sync_timestamp.
OrderSyncDataFields == OrderColumns \cup {"sync_type", "sync_timestamp"}

\* OrderStatus: the seven enumerated status values.
OrderStatus ==
    {"New", "In Progress CHN", "In Transit CHN-IR", "In Progress IR",
     "In Transit IR-TKM", "Completed", "Cancelled"}

\* Column defaults of the orders table (Column(default=...) / DEFAULT ...).
ColumnDefault(k) ==
    CASE k = "status" -> Some("New")
      [] k = "container_count" -> Some(0)
      [] k = "has_loading_photo" -> Some(FALSE)
      [] OTHER -> None

\* Field defaults of OrderSyncData (pydantic): a field the body leaves out
\* takes its default, a field the body sets to null stays None.
FieldDefault(k) ==
    CASE k = "status" -> Some("New")
      [] k = "container_count" -> Some(0)
      [] k = "has_loading_photo" -> Some(FALSE)
      [] k = "sync_type" -> Some("update")
      [] OTHER -> None

\* A dict with no keys.
EmptyDict == [k \in OrderSyncDataFields |-> Absent]

HasKey(d, k) == d[k] # Absent
\* dict.get(k): None when the key is missing.
Get(d, k) == IF HasKey(d, k) THEN d[k] ELSE None

\* OrderSyncData(**body): order_number and client_name are required strings
\* (a body without them is refused with 422 before the handler runs).
OrderSyncDataValid(body) ==
    /\ body["order_number"] \notin {Absent, None}
    /\ body["client_name"] \notin {Absent, None}

\* order_data (the parsed model) and order_data.dict(): every field present.
OrderSyncData(body) ==
    [k \in OrderSyncDataFields |->
        IF HasKey(body, k) THEN body[k] ELSE FieldDefault(k)]

(***************************************************************************)
(* The orders table.  A row carries its id, the modelled columns and the   *)
(* audit timestamps.                                                       *)
(***************************************************************************)
RowsByNumber(tbl, n) == {r \in tbl : r.order_number = n}

\* SERIAL primary key.
NextOrderId(tbl) ==
    IF tbl = {} THEN 1
    ELSE 1 + (CHOOSE m \in {r.id : r \in tbl} : \A r \in tbl : r.id <= m)

\* A table without the constraint, for comparison: no INSERT is refused.
UniqueViolationRelaxed(tbl, row) == FALSE
\* UNIQUE(order_number): an INSERT of a number that is stored is refused.
UniqueViolation(tbl, row) == RowsByNumber(tbl, row.order_number) # {}

\* NOT NULL on order_number and client_name.
NotNullViolation(row) == row.order_number = None \/ row.client_name = None

\* The business fields of a row: everything but the audit timestamps.
Business(r) == [k \in OrderColumns \cup {"id"} |-> r[k]]
BusinessOf(tbl) == {Business(r) : r \in tbl}

(***************************************************************************)
(* database.py: DatabaseManager.update_order_from_sync over the shared     *)
(* SQLAlchemy session.  `sess` is the session's unit of work (changes      *)
(* staged but not committed), `fault` the persistence failure that hits    *)
(* this call: "none", "lookup" (the SELECT raises, which also leaves the   *)
(* session's transaction unusable until it is rolled back) or "commit"     *)
(* (the flush or the commit raises).                                       *)
(***************************************************************************)
RowFields == OrderColumns \cup {"id", "created_at", "updated_at", "sync_timestamp"}

\* The mapped attributes of Order that a payload key can name: hasattr(order, key).
OrderAttributes == OrderColumns

\* A test for None only, for comparison: the empty string passes.
FalsyNoneOnly(v) == v = None
\* `not order_number`, `not api_key`: None and the empty string are falsy.
Falsy(v) == v = None \/ v = Some("")

\* get_order_by_number: .first() of the rows with that number; a SQLAlchemyError
\* is caught inside and None returned.
get_order_by_number(tbl, n, failed) ==
    IF failed THEN {} ELSE
    IF RowsByNumber(tbl, n) = {} THEN {} ELSE {CHOOSE r \in RowsByNumber(tbl, n) : TRUE}

\* A merge that counts containers up instead of assigning, for comparison.
MergeAccumulating(row, data, t) ==
    [k \in RowFields |->
        IF k = "container_count"
        THEN Some(IF row[k] = None THEN 1 ELSE (row[k][1] + 1) % 3)
        ELSE IF k \in OrderAttributes /\ HasKey(data, k) /\ data[k] # None THEN data[k]
        ELSE IF k = "updated_at" THEN t ELSE row[k]]
\* The update branch: every key that names an attribute and whose value is not
\* None is set; updated_at is set to now.
MergeOrder(row, data, t) ==
    [k \in RowFields |->
        IF k \in OrderAttributes /\ HasKey(data, k) /\ data[k] # None THEN data[k]
        ELSE IF k = "updated_at" THEN t ELSE row[k]]

\* Order(**order_data): a key that is no attribute of Order raises TypeError.
OrderConstructorAccepts(data) ==
    \A k \in OrderSyncDataFields : HasKey(data, k) => k \in OrderAttributes

\* The INSERT of a new Order: None and unset attributes take the column
\* default; created_at, updated_at (Python defaults) and sync_timestamp
\* (DEFAULT NOW()) are now.
NewOrder(data, id, t) ==
    [k \in RowFields |->
        IF k = "id" THEN id
        ELSE IF k \in {"created_at", "updated_at", "sync_timestamp"} THEN t
        ELSE IF HasKey(data, k) /\ data[k] # None THEN data[k]
        ELSE ColumnDefault(k)]

\* db_session.commit(): flush every staged change in one transaction.
Flush(tbl, staged) ==
    LET ins == {c.row : c \in {d \in staged : d.kind = "insert"}}
        upd == {c.row : c \in {d \in staged : d.kind = "update"}}
        bad == \/ \E r \in ins : UniqueViolation(tbl, r) \/ NotNullViolation(r)
               \/ \E r1, r2 \in ins : r1 # r2 /\ r1.order_number = r2.order_number
    IN  IF bad THEN [ok |-> FALSE, tbl |-> tbl]
        ELSE [ok |-> TRUE,
              tbl |-> {r \in tbl : r.id \notin {u.id : u \in upd}} \cup upd \cup ins]

\* A session that keeps its staged changes, for comparison.
RollbackSkipped(staged) == staged
\* db_session.rollback(): the staged changes are dropped.
Rollback(staged) == {}

update_order_from_sync(tbl, sess, data, t, fault) ==
    LET order_number == Get(data, "order_number")
        existing_order == get_order_by_number(tbl, order_number, fault = "lookup")
        change ==
            IF existing_order # {}
            THEN [kind |-> "update",
                  row |-> MergeOrder(CHOOSE r \in existing_order : TRUE, data, t)]
            ELSE [kind |-> "insert", row |-> NewOrder(data, NextOrderId(tbl), t)]
        staged == sess \cup {change}
        flushed == Flush(tbl, staged)
    IN  IF Falsy(order_number)
        THEN [result |-> FALSE, tbl |-> tbl, sess |-> sess, io |-> FALSE,
              error |-> "none"]
        ELSE IF existing_order = {} /\ ~OrderConstructorAccepts(data)
        THEN [result |-> FALSE, tbl |-> tbl, sess |-> Rollback(sess), io |-> TRUE,
              error |-> "TypeError"]
        ELSE IF fault # "none"
        THEN [result |-> FALSE, tbl |-> tbl, sess |-> Rollback(staged), io |-> TRUE,
              error |-> "persistence"]
        ELSE IF ~flushed.ok
        THEN [result |-> FALSE, tbl |-> tbl, sess |-> Rollback(staged), io |-> TRUE,
              error |-> "IntegrityError"]
        ELSE [result |-> TRUE, tbl |-> flushed.tbl, sess |-> {}, io |-> TRUE,
              error |-> "none"]

(***************************************************************************)
(* api_server.py: verify_api_key and sync_order over a connection of its   *)
(* own.  The handler looks the number up (SELECT id), then writes (UPDATE  *)
(* or INSERT ... RETURNING id) and commits.                                *)
(***************************************************************************)
\* API_KEY, the configured secret.
API_KEY == "margiana_sync_key_2024_secure_change_this"

\* verify_api_key: the header is None when absent.
verify_api_key(api_key) == ~(Falsy(api_key) \/ api_key # Some(API_KEY))

\* SELECT id FROM orders WHERE order_number = %s; fetchone().
select_id(tbl, n) ==
    IF RowsByNumber(tbl, n) = {} THEN {} ELSE {(CHOOSE r \in RowsByNumber(tbl, n) : TRUE).id}

\* UPDATE orders SET <every column> = <the payload's value>, sync_timestamp =
\* NOW(), last_modified = NOW() WHERE order_number = %s.
UpdateSet(row, order_data, t) ==
    [k \in RowFields |->
        IF k \in OrderColumns THEN order_data[k]
        ELSE IF k = "sync_timestamp" THEN t ELSE row[k]]

\* INSERT INTO orders (<every column>, sync_timestamp, created_at, updated_at)
\* VALUES (<the payload's values>, NOW(), NOW(), NOW()).
InsertValues(order_data, id, t) ==
    [k \in RowFields |->
        IF k = "id" THEN id
        ELSE IF k \in {"created_at", "updated_at", "sync_timestamp"} THEN t
        ELSE order_data[k]]

\* The write half of sync_order.  `existing` is what the lookup returned,
\* `lastModified` whether the deployed table has the column last_modified the
\* UPDATE names, `failed` a persistence failure during the write or commit.
sync_order_write(tbl, existing, order_data, t, lastModified, failed) ==
    LET n == order_data["order_number"]
        new == InsertValues(order_data, NextOrderId(tbl), t)
        err(e) == [code |-> "500", action |-> "none", order_id |-> 0,
                   tbl |-> tbl, error |-> e]
    IN  IF failed THEN err("persistence")
        ELSE IF existing # {}
        THEN IF ~lastModified THEN err("UndefinedColumn")
             ELSE IF RowsByNumber(tbl, n) = {} THEN err("TypeError")
             ELSE [code |-> "200", action |-> "updated",
                   order_id |-> (CHOOSE r \in RowsByNumber(tbl, n) : TRUE).id,
                   tbl |-> {IF r.order_number = n THEN UpdateSet(r, order_data, t)
                            ELSE r : r \in tbl},
                   error |-> "none"]
        ELSE IF UniqueViolation(tbl, new) \/ NotNullViolation(new)
        THEN err("IntegrityError")
        ELSE [code |-> "200", action |-> "created", order_id |-> new.id,
              tbl |-> tbl \cup {new}, error |-> "none"]

(***************************************************************************)
(* State.                                                                  *)
(***************************************************************************)
VARIABLES
    orders,             \* the rows of the orders table
    session,            \* DatabaseManager.db_session: staged, uncommitted changes
    has_last_modified,  \* whether the deployed orders table has a last_modified column
    now,                \* the clock (datetime.now(), NOW())
    pc,                 \* per worker: "idle", "looked" (between SELECT and write), "done"
    req,                \* per worker: the request it handles or handled last
    found,              \* per worker: existing_order, the ids the SELECT returned
    resp,               \* per worker: the response it returned last
    subscriptions,      \* the rows of the subscriptions table
    notifications,      \* the rows of the notifications table
    returned,           \* what the last call of the notification service returned
    pending,            \* per caller: the subscribe_user call between query and commit
    sends,              \* the send_message attempts of the bot's last sweep, in order
    delivered,          \* the ids of the rows the last delivery sweep returned
    running,            \* per periodic job: the texts its run in progress is sending
    next_run,           \* the minute the next run of check_new_orders reads its clock
    chat                \* the new-order messages delivered to the admins so far

vars == <<orders, session, has_last_modified, now, pc, req, found, resp,
          subscriptions, notifications, returned, pending, sends, delivered,
          running, next_run, chat>>
syncVars == <<orders, session, has_last_modified, pc, req, found, resp>>
notifVars == <<subscriptions, notifications, returned>>
scheduleVars == <<next_run, chat>>
callVars == <<pending, sends, delivered, running, scheduleVars>>

Workers == {"w1", "w2"}

\* The two jobs post_init puts on the job queue.
Jobs == {"check_new_orders", "check_upcoming_events"}

NoReq == [ep |-> "none", data |-> EmptyDict, key |-> None, repeat |-> FALSE]
NoCall == [chat_id |-> None, existing |-> {}]
NoResp == [code |-> "none", status |-> "none", action |-> "none", order_id |-> 0,
           io |-> FALSE, error |-> "none", fault |-> FALSE, result |-> {}]

\* The request record of a call; `repeat` notes that the worker's previous
\* request was the same call and was hit by no persistence failure.
Request(p, ep, data, key) ==
    [ep |-> ep, data |-> data, key |-> key,
     repeat |-> /\ pc[p] = "done"
                /\ req[p].ep = ep /\ req[p].data = data /\ req[p].key = key
                /\ ~resp[p].fault]

\* A response: the HTTP code (or "call" for a direct call), the body's status,
\* action and order_id, whether the handler touched the store (io), the
\* exception it caught (error), whether a persistence failure hit it (fault)
\* and the rows a read endpoint returns (result).
Response(code, status, action, id, io, error, fault) ==
    [code |-> code, status |-> status, action |-> action, order_id |-> id,
     io |-> io, error |-> error, fault |-> fault, result |-> {}]

\* The response of a read endpoint.
ReadResponse(code, status, io, result) ==
    [code |-> code, status |-> status, action |-> "none", order_id |-> 0,
     io |-> io, error |-> "none", fault |-> FALSE, result |-> result]

Init ==
    /\ orders = {}
    /\ session = {}
    /\ has_last_modified \in BOOLEAN
    /\ now = 0
    /\ pc = [p \in Workers |-> "idle"]
    /\ req = [p \in Workers |-> NoReq]
    /\ found = [p \in Workers |-> {}]
    /\ resp = [p \in Workers |-> NoResp]
    /\ subscriptions = {}
    /\ notifications = {}
    /\ returned = FALSE
    /\ pending = [p \in Workers |-> NoCall]
    /\ sends = <<>>
    /\ delivered = {}
    /\ running = [j \in Jobs |-> None]
    /\ next_run = 0
    /\ chat = {}

\* Time passes.
Tick ==
    /\ now < MaxTime
    /\ now' = now + 1
    /\ UNCHANGED <<syncVars, notifVars, callVars>>

\* A request ends: the worker's response is set and nothing is in flight.
Finish(p, r, response) ==
    /\ pc' = [pc EXCEPT ![p] = "done"]
    /\ req' = [req EXCEPT ![p] = r]
    /\ found' = [found EXCEPT ![p] = {}]
    /\ resp' = [resp EXCEPT ![p] = response]

\* DatabaseManager.update_order_from_sync(order_data), called directly.
store_sync(p, data, fault) ==
    \E out \in {update_order_from_sync(orders, session, data, now, fault)} :
        /\ pc[p] # "looked"
        /\ orders' = out.tbl
        /\ session' = out.sess
        /\ Finish(p, Request(p, "store", data, None),
                  Response("call", IF out.result THEN "success" ELSE "error",
                           "none", 0, out.io, out.error, out.io /\ (fault = "lookup" \/ out.error = "persistence")))
        /\ UNCHANGED <<has_last_modified, now, notifVars, callVars>>

\* bot.py: POST /api/sync/order.
bot_sync_order(p, body, key, fault) ==
    \E r \in {Request(p, "bot_sync", body, key)},
       out \in {update_order_from_sync(orders, session, OrderSyncData(body), now, fault)} :
        /\ pc[p] # "looked"
        /\ IF ~verify_api_key(key)
           THEN /\ Finish(p, r, Response("403", "error", "none", 0, FALSE, "none", FALSE))
                /\ UNCHANGED <<orders, session>>
           ELSE IF ~OrderSyncDataValid(body)
           THEN /\ Finish(p, r, Response("422", "error", "none", 0, FALSE, "none", FALSE))
                /\ UNCHANGED <<orders, session>>
           ELSE /\ orders' = out.tbl
                /\ session' = out.sess
                /\ Finish(p, r,
                          Response("200", IF out.result THEN "success" ELSE "error",
                                   "none", 0, out.io, out.error,
                                   out.io /\ (fault = "lookup" \/ out.error = "persistence")))
        /\ UNCHANGED <<has_last_modified, now, notifVars, callVars>>

\* api_server.py: POST /api/sync/order, up to and including the SELECT.
api_sync_order_lookup(p, body, key, failed) ==
    \E r \in {Request(p, "api_sync", body, key)} :
        /\ pc[p] # "looked"
        /\ IF ~verify_api_key(key)
           THEN Finish(p, r, Response("403", "error", "none", 0, FALSE, "none", FALSE))
           ELSE IF ~OrderSyncDataValid(body)
           THEN Finish(p, r, Response("422", "error", "none", 0, FALSE, "none", FALSE))
           ELSE IF failed
           THEN Finish(p, r, Response("500", "error", "none", 0, TRUE, "persistence", TRUE))
           ELSE /\ pc' = [pc EXCEPT ![p] = "looked"]
                /\ req' = [req EXCEPT ![p] = r]
                /\ found' = [found EXCEPT ![p] =
                                select_id(orders, OrderSyncData(body)["order_number"])]
                /\ resp' = [resp EXCEPT ![p] = NoResp]
        /\ UNCHANGED <<orders, session, has_last_modified, now, notifVars, callVars>>

\* api_server.py: POST /api/sync/order, the UPDATE or INSERT, the commit and
\* the response.
api_sync_order_write(p, failed) ==
    \E out \in {sync_order_write(orders, found[p], OrderSyncData(req[p].data), now,
                                has_last_modified, failed)} :
        /\ pc[p] = "looked"
        /\ orders' = out.tbl
        /\ Finish(p, req[p],
                  Response(out.code, IF out.code = "200" THEN "success" ELSE "error",
                           out.action, out.order_id, TRUE, out.error, failed))
        /\ UNCHANGED <<session, has_last_modified, now, notifVars, callVars>>

(***************************************************************************)
(* The read endpoints.                                                     *)
(***************************************************************************)
\* The request record of a GET: the path parameter, if any, as order_number.
PathData(n) == [EmptyDict EXCEPT !["order_number"] = n]

\* GET /api/health (and GET /): no dependency on verify_api_key, no storage.
health_check(p, key) ==
    /\ pc[p] # "looked"
    /\ Finish(p, Request(p, "health", EmptyDict, key), ReadResponse("200", "ok", FALSE, {}))
    /\ UNCHANGED <<orders, session, has_last_modified, now, notifVars, callVars>>

\* api_server.py: GET /api/test-db connects and queries the database; the
\* handler has no dependency on verify_api_key and answers 200 also when the
\* query fails.
test_db_connection(p, key, failed) ==
    /\ pc[p] # "looked"
    /\ Finish(p, Request(p, "api_test_db", EmptyDict, key),
              IF failed
              THEN Response("200", "error", "none", 0, TRUE, "persistence", TRUE)
              ELSE ReadResponse("200", "success", TRUE, {}))
    /\ UNCHANGED <<orders, session, has_last_modified, now, notifVars, callVars>>

\* api_server.py: GET /api/orders.
api_get_orders(p, key, failed) ==
    /\ pc[p] # "looked"
    /\ Finish(p, Request(p, "api_get_orders", EmptyDict, key),
              IF ~verify_api_key(key)
              THEN Response("403", "error", "none", 0, FALSE, "none", FALSE)
              ELSE IF failed
              THEN Response("500", "error", "none", 0, TRUE, "persistence", TRUE)
              ELSE ReadResponse("200", "success", TRUE, orders))
    /\ UNCHANGED <<orders, session, has_last_modified, now, notifVars, callVars>>

\* api_server.py: GET /api/orders/{order_number}.  The HTTPException(404) for
\* an unknown number is raised inside the try block, whose except Exception
\* answers 500.
api_get_order_by_number(p, n, key, failed) ==
    /\ pc[p] # "looked"
    /\ Finish(p, Request(p, "api_get_order", PathData(n), key),
              IF ~verify_api_key(key)
              THEN Response("403", "error", "none", 0, FALSE, "none", FALSE)
              ELSE IF failed
              THEN Response("500", "error", "none", 0, TRUE, "persistence", TRUE)
              ELSE IF RowsByNumber(orders, n) = {}
              THEN Response("500", "error", "none", 0, TRUE, "HTTPException", FALSE)
              ELSE ReadResponse("200", "success", TRUE, RowsByNumber(orders, n)))
    /\ UNCHANGED <<orders, session, has_last_modified, now, notifVars, callVars>>

\* bot.py: GET /api/orders; get_all_orders returns [] when the query fails.
bot_get_orders(p, key, failed) ==
    /\ pc[p] # "looked"
    /\ Finish(p, Request(p, "bot_get_orders", EmptyDict, key),
              IF ~verify_api_key(key)
              THEN Response("403", "error", "none", 0, FALSE, "none", FALSE)
              ELSE ReadResponse("200", "success", TRUE, IF failed THEN {} ELSE orders))
    /\ UNCHANGED <<orders, session, has_last_modified, now, notifVars, callVars>>

\* A bind parameter that is a member of the OrderStatus enum (not its value).
Member(name) == <<"OrderStatus", name>>

\* What the status column is compared with when the parameter is a member of
\* the enum and the driver renders it: the member's name.
Rendered(member) == Some(member[2])

\* DatabaseManager.get_statistics(days) at time t: the three order counts (the
\* containers table is not modelled).  The status filters compare the String
\* column with members of OrderStatus; `adapts` says whether the driver can
\* pass such a parameter at all: if not, the query raises and the except
\* clause returns {} (here: the empty set in place of the one dict).
get_statistics(tbl, days, t, adapts) ==
    LET from_date == t - 24 * 60 * days
    IN  IF ~adapts THEN {}
        ELSE {[total_orders |-> Cardinality({r \in tbl : r.created_at >= from_date}),
               completed_orders |->
                   Cardinality({r \in tbl : /\ r.status = Rendered(Member("COMPLETED"))
                                            /\ r.updated_at >= from_date}),
               active_orders |->
                   Cardinality({r \in tbl :
                       r.status \in {Rendered(Member(m)) :
                                        m \in {"NEW", "IN_PROGRESS_CHN", "IN_TRANSIT_CHN_IR",
                                               "IN_PROGRESS_IR", "IN_TRANSIT_IR_TKM"}}})]}

\* bot.py: GET /api/statistics?days=...
bot_get_statistics(p, days, key, adapts) ==
    /\ pc[p] # "looked"
    /\ Finish(p, Request(p, "bot_get_statistics", EmptyDict, key),
              IF ~verify_api_key(key)
              THEN Response("403", "error", "none", 0, FALSE, "none", FALSE)
              ELSE ReadResponse("200", "success", TRUE,
                                get_statistics(orders, days, now, adapts)))
    /\ UNCHANGED <<orders, session, has_last_modified, now, notifVars, callVars>>

(***************************************************************************)
(* notification_service.py: NotificationService over the subscriptions and *)
(* notifications tables.  Times are minutes.                               *)
(***************************************************************************)
Hours(h) == 60 * h

\* subscribe_user's hours_before, the 48-hour horizon of the batch sweep and
\* the 5-minute window of get_upcoming_notifications.
DefaultHoursBefore == 24
HorizonHours == 48
WindowMinutes == 5

\* The settings of a Subscription and the attributes setattr can reach.
SubscriptionSettings ==
    {"is_active", "notify_events", "notify_reminders", "notify_alerts", "hours_before"}
SubscriptionAttributes == SubscriptionSettings \cup {"id", "chat_id", "updated_at"}

\* Subscription(chat_id=..., is_active=True, notify_*=True, hours_before=24).
NewSubscription(id, chat_id, t) ==
    [id |-> id, chat_id |-> chat_id, is_active |-> TRUE, notify_events |-> TRUE,
     notify_reminders |-> TRUE, notify_alerts |-> TRUE,
     hours_before |-> DefaultHoursBefore, updated_at |-> t]

\* query(Subscription).filter(chat_id == ...).first()
SubscriptionOf(subs, c) == {x \in subs : x.chat_id = c}

\* The next value of a SERIAL id.
NextId(tbl) ==
    IF tbl = {} THEN 1 ELSE 1 + (CHOOSE m \in {r.id : r \in tbl} : \A r \in tbl : r.id <= m)

\* Notification(chat_id, message, notification_type, scheduled_time,
\* sent=False); the message is kept as the order and the event it names.
NewNotification(id, chat_id, type, order_number, event_type, scheduled_time) ==
    [id |-> id, chat_id |-> chat_id, notification_type |-> type,
     order_number |-> order_number, event_type |-> event_type,
     scheduled_time |-> scheduled_time, sent |-> FALSE]

\* One Notification for each subscription of `to`, added in the order of the
\* query (by id); sched[x] is the scheduled_time for subscription x.
FanOut(notifs, to, type, order_number, event_type, sched) ==
    notifs \cup
    {NewNotification(NextId(notifs) + Cardinality({y \in to : y.id < x.id}),
                     x.chat_id, type, order_number, event_type, sched[x]) : x \in to}

\* An event fan-out that also reaches unsubscribed recipients, for comparison.
EventToInactive(subs, notifs, order, event_type, event_date) ==
    LET to == {x \in subs : x.notify_events}
    IN  FanOut(notifs, to, "event", order.order_number, event_type,
               [x \in to |-> event_date])
\* create_event_notification: the rows after the commit.
EventNotifications(subs, notifs, order, event_type, event_date) ==
    LET to == {x \in subs : x.is_active /\ x.notify_events}
    IN  FanOut(notifs, to, "event", order.order_number, event_type,
               [x \in to |-> event_date])

\* A reminder fan-out that does not look at the clock, for comparison.
ReminderAlways(subs, notifs, order, event_type, event_date, t) ==
    LET reminder_time == [x \in subs |-> event_date - Hours(x.hours_before)]
        to == {x \in subs : x.is_active /\ x.notify_reminders}
    IN  FanOut(notifs, to, "reminder", order.order_number, event_type, reminder_time)
\* create_reminder_notification: the rows after the commit.
ReminderNotifications(subs, notifs, order, event_type, event_date, t) ==
    LET reminder_time == [x \in subs |-> event_date - Hours(x.hours_before)]
        to == {x \in subs : x.is_active /\ x.notify_reminders /\ reminder_time[x] > t}
    IN  FanOut(notifs, to, "reminder", order.order_number, event_type, reminder_time)

\* create_alert_notification: the rows after the commit.
AlertNotifications(subs, notifs, order, alert_type, t) ==
    LET to == {x \in subs : x.is_active /\ x.notify_alerts}
    IN  FanOut(notifs, to, "alert", order.order_number, alert_type, [x \in to |-> t])

\* A mark that flips the flag, for comparison.
MarkToggled(notifs, id) ==
    {IF n.id = id THEN [n EXCEPT !.sent = ~n.sent] ELSE n : n \in notifs}
\* mark_notification_sent: the rows after the commit.
MarkSent(notifs, id) ==
    {IF n.id = id THEN [n EXCEPT !.sent = TRUE] ELSE n : n \in notifs}

\* A window that leaves out its far end, for comparison.
get_upcoming_open_window(notifs, t, failed) ==
    IF failed THEN {}
    ELSE {n \in notifs : n.scheduled_time >= t /\ n.scheduled_time < t + WindowMinutes
                         /\ ~n.sent}
\* get_upcoming_notifications at time t: the pending rows scheduled within
\* the window; [] when the query fails.
get_upcoming_notifications(notifs, t, failed) ==
    IF failed THEN {}
    ELSE {n \in notifs : n.scheduled_time >= t /\ n.scheduled_time <= t + WindowMinutes
                         /\ ~n.sent}

\* get_upcoming_events: the milestones between from_date and to_date.
get_upcoming_events(tbl, from, to) ==
    {[order_number |-> r.order_number, event_type |-> "departure",
      event_date |-> r.departure_date[1]] :
        r \in {x \in tbl : x.departure_date # None
                           /\ x.departure_date[1] >= from /\ x.departure_date[1] <= to}}

\* The loop of check_and_create_notifications over the events, by event_date.
RECURSIVE SweepEvents(_, _, _, _, _)
SweepEvents(events, tbl, subs, notifs, t) ==
    IF events = {} THEN notifs
    ELSE LET e == CHOOSE x \in events : \A y \in events : x.event_date <= y.event_date
             order == get_order_by_number(tbl, e.order_number, FALSE)
             withEvent ==
                IF order = {} THEN notifs
                ELSE EventNotifications(subs, notifs, CHOOSE o \in order : TRUE,
                                        e.event_type, e.event_date)
             withReminder ==
                IF order = {} THEN notifs
                ELSE ReminderNotifications(subs, withEvent, CHOOSE o \in order : TRUE,
                                           e.event_type, e.event_date, t)
         IN  SweepEvents(events \ {e}, tbl, subs, withReminder, t)

\* The notifications table holds at most MaxNotifications rows in the model.
Fits(notifs) == Cardinality(notifs) <= MaxNotifications

\* A subscribe that puts an existing row back to the defaults, for comparison.
SubscribedAfresh(subs, c, t) ==
    IF SubscriptionOf(subs, c) # {}
    THEN {IF x.chat_id = c THEN NewSubscription(x.id, c, t) ELSE x : x \in subs}
    ELSE subs \cup {NewSubscription(NextId(subs), c, t)}
\* subscribe_user: the rows after the commit.
Subscribed(subs, c, t) ==
    IF SubscriptionOf(subs, c) # {}
    THEN {IF x.chat_id = c THEN [x EXCEPT !.is_active = TRUE, !.updated_at = t]
          ELSE x : x \in subs}
    ELSE subs \cup {NewSubscription(NextId(subs), c, t)}

\* subscribe_user(chat_id); `failed`: the commit raises and is rolled back.
subscribe_user(c, failed) ==
    /\ subscriptions' = IF failed THEN subscriptions ELSE Subscribed(subscriptions, c, now)
    /\ returned' = ~failed
    /\ UNCHANGED <<syncVars, callVars, now, notifications>>

\* A subscriptions table without the unique key, for comparison.
ChatIdNotUnique(tbl, c) == FALSE
\* UNIQUE(chat_id): the INSERT of a second row for the recipient is refused.
ChatIdTaken(tbl, c) == SubscriptionOf(tbl, c) # {}

\* subscribe_user(chat_id) of caller p, up to the result of its query.
subscribe_user_query(p, c) ==
    /\ pending[p] = NoCall
    /\ pending' = [pending EXCEPT ![p] =
                      [chat_id |-> Some(c),
                       existing |-> {[id |-> x.id, is_active |-> x.is_active] :
                                        x \in SubscriptionOf(subscriptions, c)}]]
    /\ UNCHANGED <<syncVars, now, notifVars, sends, delivered, running, scheduleVars>>

\* subscribe_user of caller p from the result of its query on: the flush
\* writes is_active of the loaded row only when the loaded value was not
\* True already, or inserts the new row; then the commit, or the rollback
\* when the INSERT is refused or the commit fails.
subscribe_user_commit(p, failed) ==
    /\ pending[p] # NoCall
    /\ LET c == pending[p].chat_id[1]
           existing == pending[p].existing
           loaded(x) == \E e \in existing : e.id = x.id
           dirty(x) == \E e \in existing : e.id = x.id /\ ~e.is_active
           out == IF existing # {}
                  THEN {IF loaded(x)
                        THEN [x EXCEPT !.is_active = IF dirty(x) THEN TRUE ELSE @,
                                       !.updated_at = now]
                        ELSE x : x \in subscriptions}
                  ELSE subscriptions \cup {NewSubscription(NextId(subscriptions), c, now)}
           ok == ~failed /\ ~(existing = {} /\ ChatIdTaken(subscriptions, c))
       IN  /\ subscriptions' = IF ok THEN out ELSE subscriptions
           /\ returned' = ok
    /\ pending' = [pending EXCEPT ![p] = NoCall]
    /\ UNCHANGED <<syncVars, now, notifications, sends, delivered, running, scheduleVars>>

\* An unsubscribe that deletes the row, for comparison.
UnsubscribedByDelete(subs, c, t) == {x \in subs : x.chat_id # c}
\* unsubscribe_user: the rows after the commit.
Unsubscribed(subs, c, t) ==
    {IF x.chat_id = c THEN [x EXCEPT !.is_active = FALSE, !.updated_at = t] ELSE x :
        x \in subs}

\* unsubscribe_user(chat_id).
unsubscribe_user(c, failed) ==
    /\ subscriptions' =
         IF failed THEN subscriptions ELSE Unsubscribed(subscriptions, c, now)
    /\ returned' = (SubscriptionOf(subscriptions, c) # {} /\ ~failed)
    /\ UNCHANGED <<syncVars, callVars, now, notifications>>

\* get_user_settings(chat_id): the settings, or None.
get_user_settings(subs, c) ==
    IF SubscriptionOf(subs, c) = {} THEN None
    ELSE Some([k \in SubscriptionSettings |->
                (CHOOSE x \in SubscriptionOf(subs, c) : TRUE)[k]])

\* The row after update_user_settings' loop: every key of settings that names
\* an attribute is set, then updated_at.
ApplySettings(row, settings, t) ==
    [k \in DOMAIN row |->
        IF k = "updated_at" THEN t
        ELSE IF k \in DOMAIN settings /\ k \in SubscriptionAttributes THEN settings[k]
        ELSE row[k]]

\* update_user_settings(chat_id, settings); the commit also fails when the
\* new chat_id is another row's (UNIQUE).
update_user_settings(c, settings, failed) ==
    LET existing == SubscriptionOf(subscriptions, c)
        updated == {IF x \in existing THEN ApplySettings(x, settings, now) ELSE x :
                        x \in subscriptions}
        clash == \E x, y \in updated : x.id # y.id /\ x.chat_id = y.chat_id
        ok == existing # {} /\ ~failed /\ ~clash
    IN  /\ subscriptions' = IF ok THEN updated ELSE subscriptions
        /\ returned' = ok
        /\ UNCHANGED <<syncVars, callVars, now, notifications>>

\* create_event_notification(order, event_type, event_date).
create_event_notification(order, event_type, event_date, failed) ==
    \E out \in {EventNotifications(subscriptions, notifications, order, event_type,
                                   event_date)} :
        /\ Fits(out)
        /\ notifications' = IF failed THEN notifications ELSE out
        /\ returned' = ~failed
        /\ UNCHANGED <<syncVars, callVars, now, subscriptions>>

\* create_reminder_notification(order, event_type, event_date).
create_reminder_notification(order, event_type, event_date, failed) ==
    \E out \in {ReminderNotifications(subscriptions, notifications, order, event_type,
                                      event_date, now)} :
        /\ Fits(out)
        /\ notifications' = IF failed THEN notifications ELSE out
        /\ returned' = ~failed
        /\ UNCHANGED <<syncVars, callVars, now, subscriptions>>

\* create_alert_notification(order, alert_type, alert_message).
create_alert_notification(order, alert_type, failed) ==
    \E out \in {AlertNotifications(subscriptions, notifications, order, alert_type, now)} :
        /\ Fits(out)
        /\ notifications' = IF failed THEN notifications ELSE out
        /\ returned' = ~failed
        /\ UNCHANGED <<syncVars, callVars, now, subscriptions>>

\* mark_notification_sent(notification_id).
mark_notification_sent(id, failed) ==
    LET ok == (\E n \in notifications : n.id = id) /\ ~failed
    IN  /\ notifications' = IF ok THEN MarkSent(notifications, id) ELSE notifications
        /\ returned' = ok
        /\ UNCHANGED <<syncVars, callVars, now, subscriptions>>

\* check_and_create_notifications(): the batch sweep; get_upcoming_events
\* returns [] when its query fails.
check_and_create_notifications(failed) ==
    \E out \in {SweepEvents(IF failed THEN {}
                            ELSE get_upcoming_events(orders, now, now + Hours(HorizonHours)),
                            orders, subscriptions, notifications, now)} :
        /\ Fits(out)
        /\ notifications' = out
        /\ returned' = TRUE
        /\ UNCHANGED <<syncVars, callVars, now, subscriptions>>

\* The batch sweep as a periodic job with a period of a day: the sweep runs
\* and the clock moves on to the next run (at the end of the modelled time
\* the sweep runs again and again).
periodic_check_and_create ==
    \E out \in {SweepEvents(get_upcoming_events(orders, now, now + Hours(HorizonHours)),
                            orders, subscriptions, notifications, now)} :
        /\ Fits(out)
        /\ notifications' = out
        /\ returned' = TRUE
        /\ now' = IF now + Hours(24) <= Hours(24) * MaxDays THEN now + Hours(24) ELSE now
        /\ UNCHANGED <<syncVars, callVars, subscriptions>>

\* A delivery sweep: get_upcoming_notifications() is called and the rows it
\* returns are the ones handed over for sending.
deliver_notifications(failed) ==
    /\ delivered' = {n.id : n \in get_upcoming_notifications(notifications, now, failed)}
    /\ UNCHANGED <<syncVars, now, notifVars, pending, sends, running, scheduleVars>>

\* A day passes.
DayPasses ==
    /\ now + Hours(24) <= Hours(24) * MaxDays
    /\ now' = now + Hours(24)
    /\ UNCHANGED <<syncVars, notifVars, callVars>>

(***************************************************************************)
(* telegram_bot_fixed.py: the two periodic sweeps of the bot.              *)
(***************************************************************************)
NewOrderMinutes == 5
UpcomingHours == 24
SweepLimit == 10

\* ADMIN_CHAT_IDS: the comma-separated setting, split; an entry may be blank.
ADMIN_CHAT_IDS == <<"a1", "", "a2">>

\* The orders in which a query may return the rows of S.
Orderings(S) ==
    {s \in [1..Cardinality(S) -> S] : \A r \in S : \E i \in DOMAIN s : s[i] = r}

\* The first SweepLimit rows of a result.
Limited(rows) ==
    SubSeq(rows, 1, IF Len(rows) > SweepLimit THEN SweepLimit ELSE Len(rows))

\* SELECT * FROM orders WHERE sync_timestamp >= now - 5 minutes ORDER BY
\* sync_timestamp DESC LIMIT 10: the possible results.
new_orders(tbl, t) ==
    {Limited(s) :
        s \in {o \in Orderings({r \in tbl : r.sync_timestamp >= t - NewOrderMinutes}) :
                  \A i, j \in DOMAIN o : i < j => o[i].sync_timestamp >= o[j].sync_timestamp}}

\* The milestone columns the sweep looks at.
Milestones == {"departure_date", "arrival_iran_date"}

\* The orders that are not finished and have a milestone between now and
\* tomorrow, LIMIT 10: the possible results.
upcoming_events(tbl, t) ==
    {Limited(s) :
        s \in Orderings({r \in tbl :
                            /\ r.status # None
                            /\ r.status[1] \notin {"Completed", "Cancelled"}
                            /\ \E k \in Milestones :
                                  /\ r[k] # None
                                  /\ r[k][1] >= t
                                  /\ r[k][1] <= t + Hours(UpcomingHours)})}

\* int((event_date - now).total_seconds() / 3600): int() drops the fraction,
\* towards zero.
hours_left(event_date, t) ==
    IF event_date >= t THEN (event_date - t) \div 60 ELSE 0 - ((t - event_date) \div 60)

\* The events list of an order: the dates of its milestones that are set and
\* not after tomorrow.
EventDates(r, t) ==
    {r[k][1] : k \in {m \in Milestones : r[m] # None /\ r[m][1] <= t + Hours(UpcomingHours)}}

\* events.sort(...); events[:1]: the earliest date of the list, if any.
FirstEvent(r, t) ==
    IF EventDates(r, t) = {} THEN {}
    ELSE {CHOOSE d \in EventDates(r, t) : \A e \in EventDates(r, t) : d <= e}

\* The notification texts a sweep builds, one for each row it announces.
Texts(rows, kind) ==
    [i \in DOMAIN rows |-> [order_number |-> rows[i].order_number, kind |-> kind]]

\* A send loop that a failed send_message ends, for comparison.
AttemptsUntilFailure(texts, admins, fails) ==
    LET n == Len(admins)
        all == [i \in 1..(Len(texts) * n) |->
                  [chat_id |-> admins[((i - 1) % n) + 1],
                   order_number |-> texts[((i - 1) \div n) + 1].order_number,
                   kind |-> texts[((i - 1) \div n) + 1].kind,
                   ok |-> <<admins[((i - 1) % n) + 1],
                            texts[((i - 1) \div n) + 1].order_number>> \notin fails]]
        NotBlank(a) == a.chat_id # ""
        tried == SelectSeq(all, NotBlank)
        bad == {i \in DOMAIN tried : ~tried[i].ok}
    IN  IF bad = {} THEN tried
        ELSE SubSeq(tried, 1, CHOOSE i \in bad : \A j \in bad : i <= j)
\* for order in ...: for admin_id in ADMIN_CHAT_IDS: if admin_id.strip():
\* try send_message except log.  The attempts in order, each with its
\* outcome; `fails` are the (recipient, order) pairs whose send raises.
Attempts(texts, admins, fails) ==
    LET n == Len(admins)
        all == [i \in 1..(Len(texts) * n) |->
                  [chat_id |-> admins[((i - 1) % n) + 1],
                   order_number |-> texts[((i - 1) \div n) + 1].order_number,
                   kind |-> texts[((i - 1) \div n) + 1].kind,
                   ok |-> <<admins[((i - 1) % n) + 1],
                            texts[((i - 1) \div n) + 1].order_number>> \notin fails]]
        NotBlank(a) == a.chat_id # ""
    IN  SelectSeq(all, NotBlank)

\* check_new_orders(context); `failed`: no connection, or the query raises.
check_new_orders(failed, fails) ==
    \E rows \in IF failed THEN {<<>>} ELSE new_orders(orders, now) :
        /\ sends' = Attempts(Texts(rows, "new_order"), ADMIN_CHAT_IDS, fails)
        /\ UNCHANGED <<syncVars, now, notifVars, pending, delivered, running, scheduleVars>>

\* check_upcoming_events(context): a reminder for each returned order whose
\* first event is more than zero and at most 24 whole hours away.
check_upcoming_events(failed, fails) ==
    \E rows \in IF failed THEN {<<>>} ELSE upcoming_events(orders, now) :
        LET Near(r) == \E d \in FirstEvent(r, now) :
                          /\ hours_left(d, now) <= UpcomingHours
                          /\ hours_left(d, now) > 0
        IN  /\ sends' = Attempts(Texts(SelectSeq(rows, Near), "reminder"),
                                  ADMIN_CHAT_IDS, fails)
            /\ UNCHANGED <<syncVars, now, notifVars, pending, delivered, running, scheduleVars>>

\* run_repeating(check_new_orders, interval=300): the job is due every five
\* minutes; a run reads its clock (datetime.now() after the connection is
\* made) in the minute it is due or up to MaxTime minutes later.
NextRuns(t) ==
    LET due == (t - (t % NewOrderMinutes)) + NewOrderMinutes
    IN  due..(due + MaxTime)

\* A run of check_new_orders on schedule, at the start of its minute: the
\* sweep, the messages that reached the admins, and the time of the next run.
run_check_new_orders(failed, fails) ==
    /\ now = next_run
    /\ \E rows \in IF failed THEN {<<>>} ELSE new_orders(orders, now) :
          LET log == Attempts(Texts(rows, "new_order"), ADMIN_CHAT_IDS, fails)
              stamp(n) == (CHOOSE i \in DOMAIN rows : rows[i].order_number = n)
          IN  /\ sends' = log
              /\ chat' = chat \cup
                    {[chat_id |-> log[i].chat_id,
                      order_number |-> log[i].order_number,
                      sync_timestamp |-> rows[stamp(log[i].order_number)].sync_timestamp,
                      at |-> now] : i \in {j \in DOMAIN log : log[j].ok}}
    /\ next_run' \in NextRuns(now)
    /\ UNCHANGED <<syncVars, now, notifVars, pending, delivered, running>>

\* A minute passes; a run that is due in this minute comes first.
MinutePasses ==
    /\ now # next_run
    /\ now < 2 * NewOrderMinutes + MaxTime
    /\ now' = now + 1
    /\ UNCHANGED <<syncVars, notifVars, callVars>>

\* The texts a run of a job builds from the rows its query returned.
JobTexts(job, rows, t) ==
    LET Near(r) == \E d \in FirstEvent(r, t) :
                      /\ hours_left(d, t) <= UpcomingHours
                      /\ hours_left(d, t) > 0
    IN  IF job = "check_new_orders" THEN Texts(rows, "new_order")
        ELSE Texts(SelectSeq(rows, Near), "reminder")

\* The job queue starts a run of a job: the callback runs up to its first
\* await of send_message (the connection and the query are synchronous), or
\* to its end when there is nothing to send.  The job queue keeps to one run
\* of a job at a time; neither it nor the callbacks look at the other job.
job_start(job, failed) ==
    /\ running[job] = None
    /\ \E rows \in IF failed THEN {<<>>}
                   ELSE IF job = "check_new_orders" THEN new_orders(orders, now)
                   ELSE upcoming_events(orders, now) :
          LET texts == JobTexts(job, rows, now)
          IN  /\ running' = [running EXCEPT ![job] = IF texts = <<>> THEN None
                                                     ELSE Some(texts)]
              /\ sends' = IF texts = <<>> THEN <<>> ELSE sends
    /\ UNCHANGED <<syncVars, now, notifVars, pending, delivered, scheduleVars>>

\* The run of a job gets through its sends and ends.
job_finish(job, fails) ==
    /\ running[job] # None
    /\ sends' = Attempts(running[job][1], ADMIN_CHAT_IDS, fails)
    /\ running' = [running EXCEPT ![job] = None]
    /\ UNCHANGED <<syncVars, now, notifVars, pending, delivered, scheduleVars>>

(***************************************************************************)
(* Inputs.                                                                 *)
(***************************************************************************)
Body(n, c, g, s, cc, ph, st, dd) ==
    [k \in OrderSyncDataFields |->
        CASE k = "order_number" -> n
          [] k = "client_name" -> c
          [] k = "goods_type" -> g
          [] k = "status" -> s
          [] k = "container_count" -> cc
          [] k = "has_loading_photo" -> ph
          [] k = "sync_type" -> st
          [] k = "departure_date" -> dd
          [] OTHER -> Absent]

\* The bodies the desktop application sends for the numbers Ns: goods_type
\* null or set, status left out, null or set, the other optional fields left
\* out; and one body that also carries sync_type.
BodiesFor(Ns) ==
    {Body(Some(n), Some("Acme"), g, s, Absent, Absent, Absent, Absent) :
        n \in Ns, g \in {None, Some("Tea")}, s \in {Absent, None, Some("Completed")}}
    \cup {Body(Some(n), Some("Acme"), Some("Tea"), Some("Completed"), Absent, Absent,
                Some("create"), Absent) : n \in Ns}

\* Dicts whose order_number is missing or empty.
UnkeyedData ==
    {Body(n, Some("Acme"), g, Absent, Absent, Absent, Absent, Absent) :
        n \in {Absent, Some("")}, g \in {None, Some("Tea")}}

Faults == {"none", "lookup", "commit"}

(***************************************************************************)
(* Spec: one worker serves syncs of two order numbers through the three    *)
(* entry points, one request after the other.                              *)
(***************************************************************************)
Next ==
    \/ \E data \in BodiesFor(OrderNumbers) \cup UnkeyedData :
            store_sync("w1", data, "none")
    \/ \E body \in BodiesFor(OrderNumbers) \cup UnkeyedData :
            bot_sync_order("w1", body, Some(API_KEY), "none")
    \/ \E body \in BodiesFor(OrderNumbers) :
            api_sync_order_lookup("w1", body, Some(API_KEY), FALSE)
    \/ api_sync_order_write("w1", FALSE)

Spec == Init /\ [][Next]_vars

(***************************************************************************)
(* SpecOneOrder: one worker serves syncs of one order number while time    *)
(* passes and persistence failures strike.                                 *)
(***************************************************************************)
NextOneOrder ==
    \/ Tick
    \/ \E data \in BodiesFor({"ORD-1"}), f \in Faults : store_sync("w1", data, f)
    \/ \E body \in BodiesFor({"ORD-1"}), f \in Faults :
            bot_sync_order("w1", body, Some(API_KEY), f)
    \/ \E body \in BodiesFor({"ORD-1"}), f \in BOOLEAN :
            api_sync_order_lookup("w1", body, Some(API_KEY), f)
    \/ \E f \in BOOLEAN : api_sync_order_write("w1", f)

SpecOneOrder == Init /\ [][NextOneOrder]_vars

(***************************************************************************)
(* SpecRace: two workers serve syncs of the same numbers at the same time; *)
(* an api_server.py sync can be overtaken between its SELECT and its       *)
(* write.                                                                  *)
(***************************************************************************)
RaceBodies ==
    {Body(Some(n), Some("Acme"), g, Absent, Absent, Absent, Absent, Absent) :
        n \in OrderNumbers, g \in {Some("Tea"), Some("Silk")}}

NextRace ==
    \/ \E p \in Workers, body \in RaceBodies :
            api_sync_order_lookup(p, body, Some(API_KEY), FALSE)
    \/ \E p \in Workers : api_sync_order_write(p, FALSE)
    \/ \E p \in Workers, data \in RaceBodies : store_sync(p, data, "none")

SpecRace == Init /\ [][NextRace]_vars

(***************************************************************************)
(* SpecHttp: one worker serves every HTTP endpoint of api_server.py and    *)
(* bot.py, with the api-key header absent, empty, wrong or right.          *)
(***************************************************************************)
Keys == {None, Some(""), Some("wrong"), Some(API_KEY)}

\* The days parameter of the statistics.
StatDays == {0, 1}

HttpBodies ==
    {Body(Some(n), Some("Acme"), Some("Tea"), Absent, Absent, Absent, Absent, Absent) :
        n \in OrderNumbers}

NextHttp ==
    \/ \E key \in Keys : health_check("w1", key)
    \/ \E key \in Keys, f \in BOOLEAN : test_db_connection("w1", key, f)
    \/ \E key \in Keys, body \in HttpBodies : api_sync_order_lookup("w1", body, key, FALSE)
    \/ api_sync_order_write("w1", FALSE)
    \/ \E key \in Keys, f \in BOOLEAN : api_get_orders("w1", key, f)
    \/ \E key \in Keys, n \in OrderNumbers, f \in BOOLEAN :
            api_get_order_by_number("w1", Some(n), key, f)
    \/ \E key \in Keys, body \in HttpBodies : bot_sync_order("w1", body, key, "none")
    \/ \E key \in Keys, f \in BOOLEAN : bot_get_orders("w1", key, f)
    \/ \E key \in Keys, days \in StatDays, f \in BOOLEAN :
            bot_get_statistics("w1", days, key, f)

SpecHttp == Init /\ [][NextHttp]_vars

(***************************************************************************)
(* SpecNotif: the notification service is called in any order for one      *)
(* recipient while an order with a departure date is synced and days pass. *)
(***************************************************************************)
ChatIds == {"c1"}

\* An order that departs 40 hours from the start.
DatedBodies ==
    {Body(Some("ORD-1"), Some("Acme"), Absent, Absent, Absent, Absent, Absent, Some(d)) :
        d \in {Hours(40)}}

SettingsInputs ==
    {[notify_events |-> FALSE], [hours_before |-> 48], [theme |-> "dark"]}

NextNotif ==
    \/ DayPasses
    \/ \E data \in DatedBodies : store_sync("w1", data, "none")
    \/ \E c \in ChatIds, f \in BOOLEAN : subscribe_user(c, f)
    \/ \E c \in ChatIds, f \in BOOLEAN : unsubscribe_user(c, f)
    \/ \E c \in ChatIds, st \in SettingsInputs, f \in BOOLEAN : update_user_settings(c, st, f)
    \/ \E o \in orders, f \in BOOLEAN :
            create_event_notification(o, "departure", o.departure_date[1], f)
    \/ \E o \in orders, f \in BOOLEAN :
            create_reminder_notification(o, "departure", o.departure_date[1], f)
    \/ \E o \in orders, f \in BOOLEAN : create_alert_notification(o, "status_change", f)
    \/ \E n \in notifications, f \in BOOLEAN : mark_notification_sent(n.id, f)
    \/ \E f \in BOOLEAN : check_and_create_notifications(f)

SpecNotif == Init /\ [][NextNotif]_vars

(***************************************************************************)
(* SpecFanOut: two recipients subscribe, unsubscribe and change settings   *)
(* while notifications are created for a dated order, directly and by the  *)
(* batch sweep.                                                            *)
(***************************************************************************)
Recipients == {"c1", "c2"}

FanOutSettings == {[notify_alerts |-> FALSE], [hours_before |-> 48]}

NextFanOut ==
    \/ \E data \in DatedBodies : store_sync("w1", data, "none")
    \/ \E c \in Recipients : subscribe_user(c, FALSE)
    \/ \E c \in Recipients : unsubscribe_user(c, FALSE)
    \/ \E c \in Recipients, st \in FanOutSettings : update_user_settings(c, st, FALSE)
    \/ \E o \in orders : create_event_notification(o, "departure", o.departure_date[1], FALSE)
    \/ \E o \in orders :
            create_reminder_notification(o, "departure", o.departure_date[1], FALSE)
    \/ \E o \in orders : create_alert_notification(o, "status_change", FALSE)
    \/ check_and_create_notifications(FALSE)

SpecFanOut == Init /\ [][NextFanOut]_vars

(***************************************************************************)
(* SpecSweep: the batch sweep is the only operation that creates           *)
(* notifications; it runs any number of times while one recipient          *)
(* subscribes and changes settings and a day passes.                       *)
(***************************************************************************)
NextSweep ==
    \/ DayPasses
    \/ \E data \in DatedBodies : store_sync("w1", data, "none")
    \/ \E c \in ChatIds : subscribe_user(c, FALSE)
    \/ \E c \in ChatIds, st \in SettingsInputs : update_user_settings(c, st, FALSE)
    \/ \E f \in BOOLEAN : check_and_create_notifications(f)

SpecSweep == Init /\ [][NextSweep]_vars

(***************************************************************************)
(* SpecDue: notifications scheduled at, inside, at the end of and beyond   *)
(* the look-ahead window are created and marked sent while minutes and a   *)
(* day pass; the rows returned by get_upcoming_notifications are read in   *)
(* every state.                                                            *)
(***************************************************************************)
DueTimes == {WindowMinutes, WindowMinutes + 1, WindowMinutes + 2}

NextDue ==
    \/ Tick
    \/ DayPasses
    \/ \E data \in DatedBodies : store_sync("w1", data, "none")
    \/ \E c \in ChatIds : subscribe_user(c, FALSE)
    \/ \E o \in orders, d \in DueTimes : create_event_notification(o, "departure", d, FALSE)
    \/ \E o \in orders : create_alert_notification(o, "status_change", FALSE)
    \/ \E id \in 1..MaxNotifications : mark_notification_sent(id, FALSE)

SpecDue == Init /\ [][NextDue]_vars

(***************************************************************************)
(* SpecDelivery: alerts are created for an order while minutes pass and    *)
(* delivery sweeps run.  The clock keeps going until the end of the        *)
(* modelled time and the sweeps keep running.                              *)
(***************************************************************************)
NextDelivery ==
    \/ Tick
    \/ \E data \in DatedBodies : store_sync("w1", data, "none")
    \/ \E c \in Recipients : subscribe_user(c, FALSE)
    \/ \E o \in orders, f \in BOOLEAN : create_alert_notification(o, "status_change", f)
    \/ \E f \in BOOLEAN : deliver_notifications(f)

SpecDelivery ==
    /\ Init /\ [][NextDelivery]_vars
    /\ WF_vars(Tick)
    /\ WF_vars(deliver_notifications(FALSE))

(***************************************************************************)
(* SpecPeriodic: the batch sweep runs once a day, for ever, while an order *)
(* with a milestone 60 hours after the start is synced and one recipient   *)
(* subscribes and changes the lead time of the reminders from the default  *)
(* to 48 hours or switches event notifications off.                        *)
(***************************************************************************)
FarBodies ==
    {Body(Some("ORD-1"), Some("Acme"), g, Absent, Absent, Absent, Absent, Some(Hours(60))) :
        g \in {Absent, Some("Tea")}}

PeriodicSettings == {[notify_events |-> FALSE], [hours_before |-> 48]}

NextPeriodic ==
    \/ \E data \in FarBodies : store_sync("w1", data, "none")
    \/ \E c \in ChatIds : subscribe_user(c, FALSE)
    \/ \E c \in ChatIds, st \in PeriodicSettings : update_user_settings(c, st, FALSE)
    \/ periodic_check_and_create

SpecPeriodic ==
    /\ Init /\ [][NextPeriodic]_vars
    /\ WF_vars(periodic_check_and_create)

(***************************************************************************)
(* SpecEvents: orders with a departure and an arrival in Iran, or one of   *)
(* them, are synced and finished while a day passes and the sweep of       *)
(* upcoming events runs.                                                   *)
(***************************************************************************)
EventBodies ==
    {[Body(Some("ORD-1"), Some("Acme"), Absent, Absent, Absent, Absent, Absent, dd)
         EXCEPT !["arrival_iran_date"] = ad] :
        dd \in {Absent, Some(Hours(12))}, ad \in {Absent, Some(Hours(34))}}
    \cup {Body(Some("ORD-1"), Absent, Absent, Some("Completed"), Absent, Absent, Absent,
               Absent),
          Body(Some("ORD-2"), Some("Acme"), Absent, Absent, Absent, Absent, Absent,
               Some(Hours(30)))}

NextEvents ==
    \/ DayPasses
    \/ \E data \in EventBodies : store_sync("w1", data, "none")
    \/ \E f \in BOOLEAN : check_upcoming_events(f, {})

SpecEvents == Init /\ [][NextEvents]_vars

(***************************************************************************)
(* SpecSchedule: check_new_orders runs every five minutes, on time or late *)
(* by up to MaxTime minutes, while an order is synced again and again      *)
(* through POST /api/sync and minutes pass.  No connection, query or send  *)
(* fails.  In the minute of a run, the run comes before the syncs.         *)
(***************************************************************************)
ScheduleBodies ==
    {Body(Some("ORD-1"), Some("Acme"), Absent, Absent, Absent, Absent, Absent, Absent)}

NextSchedule ==
    \/ MinutePasses
    \/ /\ now # next_run
       /\ \E body \in ScheduleBodies :
              api_sync_order_lookup("w1", body, Some(API_KEY), FALSE)
    \/ /\ now # next_run
       /\ api_sync_order_write("w1", FALSE)
    \/ run_check_new_orders(FALSE, {})

SpecSchedule == Init /\ [][NextSchedule]_vars

(***************************************************************************)
(* SpecRegistry: two recipients subscribe, unsubscribe and update their    *)
(* settings, with commit failures, while a day passes. The settings carry  *)
(* a flag, a lead time, a key that is no attribute of a subscription, and  *)
(* the chat_id attribute.                                                  *)
(***************************************************************************)
RegistrySettings ==
    {[notify_events |-> FALSE], [hours_before |-> 48], [theme |-> "dark"],
     [chat_id |-> "c2"]}

NextRegistry ==
    \/ DayPasses
    \/ \E c \in Recipients, f \in BOOLEAN : subscribe_user(c, f)
    \/ \E c \in Recipients, f \in BOOLEAN : unsubscribe_user(c, f)
    \/ \E c \in Recipients, st \in RegistrySettings, f \in BOOLEAN :
            update_user_settings(c, st, f)

SpecRegistry == Init /\ [][NextRegistry]_vars

(***************************************************************************)
(* SpecSubscribeRace: two callers run subscribe_user concurrently, query   *)
(* and commit apart, for the same or different recipients, interleaved     *)
(* with whole subscribe_user, unsubscribe_user and update_user_settings    *)
(* calls.                                                                  *)
(***************************************************************************)
NextSubscribeRace ==
    \/ \E p \in Workers, c \in Recipients : subscribe_user_query(p, c)
    \/ \E p \in Workers, f \in BOOLEAN : subscribe_user_commit(p, f)
    \/ \E c \in Recipients : subscribe_user(c, FALSE)
    \/ \E c \in Recipients : unsubscribe_user(c, FALSE)
    \/ \E c \in Recipients, st \in RegistrySettings : update_user_settings(c, st, FALSE)

SpecSubscribeRace == Init /\ [][NextSubscribeRace]_vars

(***************************************************************************)
(* SpecBot: two orders departing within a day are synced through           *)
(* api_server.py while the bot's sweeps run, with sends to the two         *)
(* administrators failing, and a day passes.                               *)
(***************************************************************************)
BotBodies ==
    {Body(Some("ORD-1"), Some("Acme"), Absent, Absent, Absent, Absent, Absent,
          Some(Hours(20))),
     Body(Some("ORD-2"), Some("Acme"), Absent, Absent, Absent, Absent, Absent,
          Some(Hours(10)))}

\* The (recipient, order) pairs whose send raises: none, one, the first
\* recipient, a different recipient for each order, and all.
SendFailures ==
    {{},
     {<<"a1", Some("ORD-1")>>},
     {<<"a1", Some("ORD-1")>>, <<"a1", Some("ORD-2")>>},
     {<<"a2", Some("ORD-1")>>, <<"a1", Some("ORD-2")>>},
     {"a1", "a2"} \X {Some(n) : n \in OrderNumbers}}

NextBot ==
    \/ DayPasses
    \/ \E body \in BotBodies : api_sync_order_lookup("w1", body, Some(API_KEY), FALSE)
    \/ api_sync_order_write("w1", FALSE)
    \/ \E f \in BOOLEAN, fails \in SendFailures : check_new_orders(f, fails)
    \/ \E f \in BOOLEAN, fails \in SendFailures : check_upcoming_events(f, fails)

SpecBot == Init /\ [][NextBot]_vars

(***************************************************************************)
(* SpecJobs: the job queue runs the two periodic jobs, each run from its   *)
(* start to its end with the sends in between, while orders are synced and *)
(* a day passes.                                                           *)
(***************************************************************************)
NextJobs ==
    \/ DayPasses
    \/ \E data \in BotBodies : store_sync("w1", data, "none")
    \/ \E j \in Jobs, f \in BOOLEAN : job_start(j, f)
    \/ \E j \in Jobs, fails \in SendFailures : job_finish(j, fails)

SpecJobs == Init /\ [][NextJobs]_vars

(***************************************************************************)
(* SpecStatus: creating and updating syncs through api_server.py and       *)
(* through update_order_from_sync whose payloads leave the status out or   *)
(* carry one of two status texts.                                          *)
(***************************************************************************)
StatusBodies ==
    {Body(Some(n), Some("Acme"), Absent, st, Absent, Absent, Absent, Absent) :
        n \in OrderNumbers, st \in {Absent, Some("Completed"), Some("Shipped")}}

NextStatus ==
    \/ \E body \in StatusBodies : api_sync_order_lookup("w1", body, Some(API_KEY), FALSE)
    \/ api_sync_order_write("w1", FALSE)
    \/ \E data \in StatusBodies : store_sync("w1", data, "none")

SpecStatus == Init /\ [][NextStatus]_vars

(***************************************************************************)
(* database.py: DatabaseManager.search_orders.  Texts are spelled out as   *)
(* sequences of characters so that ILIKE can be computed as PostgreSQL     *)
(* computes it.  Of the five searched columns the model carries            *)
(* order_number, client_name and goods_type (a nullable text, as route and *)
(* document_number are).                                                   *)
(***************************************************************************)
\* The spelling of every text the search specification uses.
Chars(s) ==
    CASE s = "" -> <<>>
      [] s = "ORD-1" -> <<"O", "R", "D", "-", "1">>
      [] s = "ORD-2" -> <<"O", "R", "D", "-", "2">>
      [] s = "Acme" -> <<"A", "c", "m", "e">>
      [] s = "Tea" -> <<"T", "e", "a">>
      [] s = "acme" -> <<"a", "c", "m", "e">>
      [] s = "TEA" -> <<"T", "E", "A">>
      [] s = "rd" -> <<"r", "d">>
      [] s = "xyz" -> <<"x", "y", "z">>
      [] s = "_" -> <<"_">>
      [] s = "%" -> <<"%">>
      [] s = "a_m" -> <<"a", "_", "m">>

\* Case folding of one character.
Lower(c) ==
    CASE c = "A" -> "a" [] c = "E" -> "e" [] c = "T" -> "t"
      [] c = "O" -> "o" [] c = "R" -> "r" [] c = "D" -> "d"
      [] OTHER -> c

\* PostgreSQL's pattern match, folded for ILIKE: % matches any run of
\* characters, _ any one character, any other character itself.
RECURSIVE Like(_, _)
Like(pattern, str) ==
    IF pattern = <<>> THEN str = <<>>
    ELSE IF Head(pattern) = "%"
    THEN Like(Tail(pattern), str) \/ (str # <<>> /\ Like(pattern, Tail(str)))
    ELSE /\ str # <<>>
         /\ Head(pattern) = "_" \/ Lower(Head(pattern)) = Lower(Head(str))
         /\ Like(Tail(pattern), Tail(str))

\* column.ilike(pattern): NULL ILIKE pattern is not true.
ilike(column, pattern) == column # None /\ Like(pattern, Chars(column[1]))

\* search_orders(search_text): the rows one of whose searched columns matches
\* f"%{search_text}%"; [] when the query raises.
search_orders(tbl, search_text, failed) ==
    LET search_pattern == <<"%">> \o Chars(search_text) \o <<"%">>
    IN  IF failed THEN {}
        ELSE {r \in tbl : \/ ilike(r.order_number, search_pattern)
                          \/ ilike(r.client_name, search_pattern)
                          \/ ilike(r.goods_type, search_pattern)}

\* bot.py: the search handlers call db.search_orders(search_text).
bot_search_orders(p, search_text, failed) ==
    /\ pc[p] # "looked"
    /\ Finish(p, Request(p, "search_orders", PathData(Some(search_text)), None),
              ReadResponse("call", "success", TRUE,
                           search_orders(orders, search_text, failed)))
    /\ UNCHANGED <<orders, session, has_last_modified, now, notifVars, callVars>>

SearchTexts == {"", "acme", "TEA", "rd", "xyz", "_", "%", "a_m"}

SearchBodies ==
    {Body(Some(n), Some("Acme"), g, Absent, Absent, Absent, Absent, Absent) :
        n \in OrderNumbers, g \in {Absent, Some("Tea")}}

NextSearch ==
    \/ \E data \in SearchBodies : store_sync("w1", data, "none")
    \/ \E text \in SearchTexts, f \in BOOLEAN : bot_search_orders("w2", text, f)

SpecSearch == Init /\ [][NextSearch]_vars

(***************************************************************************)
(* SpecStats: orders are created and set to Completed through              *)
(* update_order_from_sync while minutes and a day pass, and the statistics *)
(* are requested for windows of zero days and one day.                     *)
(***************************************************************************)
StatsBodies ==
    {Body(Some(n), Some("Acme"), Absent, st, Absent, Absent, Absent, Absent) :
        n \in OrderNumbers, st \in {Absent, Some("Completed")}}

NextStats ==
    \/ Tick
    \/ DayPasses
    \/ \E data \in StatsBodies : store_sync("w1", data, "none")
    \/ \E days \in StatDays, f \in BOOLEAN :
            bot_get_statistics("w1", days, Some(API_KEY), f)

SpecStats == Init /\ [][NextStats]_vars

(***************************************************************************)
(* Properties of the sync entry points.                                    *)
(***************************************************************************)
SyncEndpoints == {"store", "bot_sync", "api_sync"}
HttpSyncEndpoints == {"bot_sync", "api_sync"}

\* The step ends a request of worker p.
Completed(p) ==
    /\ pc'[p] = "done"
    /\ pc[p] # "done" \/ req'[p] # req[p] \/ resp'[p] # resp[p]

\* The step ends a sync of worker p through one of the entry points eps that
\* passed authentication and validation.
SyncCompleted(p, eps) ==
    /\ Completed(p)
    /\ req'[p].ep \in eps
    /\ resp'[p].code \notin {"403", "422"}

\* The order_number the request that ends in this step carries.
SyncNumber(p) == Get(req'[p].data, "order_number")

\* The payload has no order_number, a null one or an empty one.
MissingOrEmpty(n) == n \in {Absent, None, Some("")}

\* C1: every successful sync request answers with action "created" when the
\* order_number was not stored before it and "updated" when it was, and with
\* the internal id of the stored order.
C1_ActionAndIdReported ==
    [][\A p \in Workers :
        SyncCompleted(p, HttpSyncEndpoints) /\ resp'[p].status = "success"
        => /\ resp'[p].action =
                IF RowsByNumber(orders, SyncNumber(p)) = {} THEN "created" ELSE "updated"
           /\ resp'[p].order_id \in {r.id : r \in RowsByNumber(orders', SyncNumber(p))}]_vars

\* C2: a successful sync of a stored order_number, through any entry point,
\* leaves every field whose payload value is absent or null as it was and
\* sets every field whose payload value is not null to that value.
C2_PartialMerge ==
    [][\A p \in Workers :
        /\ SyncCompleted(p, SyncEndpoints)
        /\ resp'[p].status = "success"
        /\ RowsByNumber(orders, SyncNumber(p)) # {}
        => \A r \in RowsByNumber(orders, SyncNumber(p)) :
             \E r2 \in RowsByNumber(orders', SyncNumber(p)) :
               \A k \in OrderColumns :
                 r2[k] = IF req'[p].data[k] \in {Absent, None} THEN r[k]
                         ELSE req'[p].data[k]]_vars

\* C6: a sync of an order_number that is not stored, hit by no persistence
\* failure, succeeds and adds exactly one order that carries the payload's
\* fields and the defaults (status New, photo flag false, container_count 0)
\* for the fields the payload leaves out or null.
C6_CreateWithDefaults ==
    [][\A p \in Workers :
        /\ SyncCompleted(p, SyncEndpoints)
        /\ ~MissingOrEmpty(SyncNumber(p))
        /\ RowsByNumber(orders, SyncNumber(p)) = {}
        /\ ~resp'[p].fault
        => /\ resp'[p].status = "success"
           /\ \E r \in orders' :
                /\ r \notin orders
                /\ orders' = orders \cup {r}
                /\ \A k \in OrderColumns :
                     r[k] = IF req'[p].data[k] \in {Absent, None} THEN ColumnDefault(k)
                            ELSE req'[p].data[k]]_vars

\* C8: update_order_from_sync, given a payload whose order_number is missing
\* or empty, returns failure without reading or writing the store, and the
\* stored orders and the session stay as they were.
C8_MissingNumberFailsEarly ==
    [][\A p \in Workers :
        SyncCompleted(p, {"store", "bot_sync"}) /\ MissingOrEmpty(SyncNumber(p))
        => /\ resp'[p].status = "error"
           /\ ~resp'[p].io
           /\ orders' = orders
           /\ session' = session]_vars

\* An order is stored and the last direct call, with a dict that has no
\* order_number, returned failure.
C8_Witness ==
    \E p \in Workers :
        /\ pc[p] = "done"
        /\ req[p].ep = "store"
        /\ ~HasKey(req[p].data, "order_number")
        /\ resp[p].status = "error"
        /\ orders # {}

\* C3: a sync that repeats the worker's previous sync (same entry point, same
\* payload, neither hit by a persistence failure) leaves the stored orders,
\* audit timestamps aside, exactly as the first application left them.
C3_Idempotent ==
    [][\A p \in Workers :
        SyncCompleted(p, SyncEndpoints) /\ req'[p].repeat /\ ~resp'[p].fault
        => BusinessOf(orders') = BusinessOf(orders)]_vars

\* A payload was applied a second time, successfully and later than the first
\* time: the order's audit timestamps moved.
C3_Witness ==
    \E p \in Workers :
        /\ pc[p] = "done"
        /\ req[p].ep \in SyncEndpoints
        /\ req[p].repeat
        /\ resp[p].status = "success"
        /\ \E r \in orders : r.created_at < r.updated_at \/ r.created_at < r.sync_timestamp

\* The sync that ends in this step left every order of another number alone
\* and its own order carries every non-null field of its payload.
AllChangesApplied(p) ==
    /\ {r \in orders' : r.order_number # SyncNumber(p)}
         = {r \in orders : r.order_number # SyncNumber(p)}
    /\ \E r \in RowsByNumber(orders', SyncNumber(p)) :
         \A k \in OrderColumns :
            req'[p].data[k] \notin {Absent, None} => r[k] = req'[p].data[k]

\* C7: a sync hit by a persistence failure is rolled back and reported as
\* failure; a sync reported as failure changed no stored order, and a sync
\* reported as success applied all of its field changes.
C7_FailureRollsBack ==
    [][\A p \in Workers :
        SyncCompleted(p, SyncEndpoints)
        => /\ resp'[p].fault => resp'[p].status = "error" /\ session' = {}
           /\ resp'[p].status # "success" => orders' = orders
           /\ resp'[p].status = "success" => AllChangesApplied(p)]_vars

\* A direct sync that would have changed the stored goods_type was hit by a
\* persistence failure and reported failure; the order is still stored.
C7_Witness ==
    \E p \in Workers :
        /\ pc[p] = "done"
        /\ req[p].ep = "store"
        /\ resp[p].fault
        /\ resp[p].status = "error"
        /\ \E r \in RowsByNumber(orders, Get(req[p].data, "order_number")) :
              /\ req[p].data["goods_type"] \notin {Absent, None}
              /\ r.goods_type # req[p].data["goods_type"]

\* C4: no two stored orders share an order_number, whatever syncs ran and
\* however they interleaved.
C4_UniqueOrderNumber ==
    \A r1, r2 \in orders : r1.order_number = r2.order_number => r1 = r2

\* Two workers synced the same unseen number at the same time: one created
\* the order, the other's INSERT was refused, and one order is stored.
C4_Witness ==
    \E p, q \in Workers :
        /\ p # q
        /\ pc[p] = "done" /\ pc[q] = "done"
        /\ req[p].ep = "api_sync" /\ req[q].ep = "api_sync"
        /\ req[p].data["order_number"] = req[q].data["order_number"]
        /\ resp[p].action = "created"
        /\ resp[q].error = "IntegrityError"
        /\ Cardinality(RowsByNumber(orders, req[p].data["order_number"])) = 1

\* The write of worker p's api_server.py sync interleaves with another
\* worker's api_server.py sync of the same number: the other worker is between
\* its SELECT and its write, or it has written since p's SELECT, so that the
\* table no longer holds what p's SELECT returned.
Interleaved(p) ==
    \E q \in Workers \ {p} :
        /\ req[q].ep = "api_sync"
        /\ req[q].data["order_number"] = req[p].data["order_number"]
        /\ \/ pc[q] = "looked"
           \/ /\ pc[q] = "done"
              /\ resp[q].status = "success"
              /\ found[p] # select_id(orders, req[p].data["order_number"])

\* C5: when syncs of one order_number interleave, each completes without a
\* detected conflict and the stored order then holds the values of the sync
\* that committed last, whether or not the number was stored beforehand.
C5_LastCommitWins ==
    [][\A p \in Workers :
        pc[p] = "looked" /\ pc'[p] = "done" /\ Interleaved(p)
        => /\ resp'[p].error # "IntegrityError"
           /\ resp'[p].status = "success"
              => \E r \in RowsByNumber(orders', SyncNumber(p)) :
                    \A k \in OrderColumns : r[k] = OrderSyncData(req'[p].data)[k]]_vars

\* The endpoints whose handler connects to or queries the database.
DatabaseEndpoints ==
    {"api_test_db", "api_sync", "api_get_orders", "api_get_order",
     "bot_sync", "bot_get_orders", "bot_get_statistics"}

\* C9: every endpoint that touches the database answers a request whose
\* api-key header is absent or differs from the configured key with 403,
\* before any storage access.
C9_KeyCheckedBeforeStorage ==
    \A p \in Workers :
        /\ pc[p] = "done"
        /\ req[p].ep \in DatabaseEndpoints
        /\ req[p].key # Some(API_KEY)
        => resp[p].code = "403" /\ ~resp[p].io

\* C10: sent is monotonic: a notification whose sent flag is true is still
\* stored with sent true after every operation of the notification service.
C10_SentMonotonic ==
    [][\A n \in notifications :
        n.sent => \E m \in notifications' : m.id = n.id /\ m.sent]_vars

\* A notification was marked sent and another one was created after it.
C10_Witness ==
    \E n, m \in notifications : n.sent /\ ~m.sent /\ n.id < m.id

(***************************************************************************)
(* Notification fan-out                                                    *)
(***************************************************************************)
\* The rows a step adds to the notifications table.
Added == notifications' \ notifications

\* The rows a step adds for the recipient of subscription x.
AddedFor(x) == {n \in Added : n.chat_id = x.chat_id}

\* C11: a successful create_reminder_notification for a milestone at T adds,
\* for each active subscription with notify_reminders, exactly one reminder
\* scheduled at T - hours_before when that time is strictly later than now,
\* and no row for that subscription when it is at or before now.
C11_ReminderFutureOnly ==
    [][\A o \in orders :
          create_reminder_notification(o, "departure", o.departure_date[1], FALSE) =>
              /\ notifications \subseteq notifications'
              /\ \A n \in Added : \E x \in subscriptions : n.chat_id = x.chat_id
              /\ \A x \in subscriptions :
                    IF x.is_active /\ x.notify_reminders
                       /\ o.departure_date[1] - 60 * x.hours_before > now
                    THEN /\ Cardinality(AddedFor(x)) = 1
                         /\ \A n \in AddedFor(x) :
                               /\ n.notification_type = "reminder"
                               /\ n.scheduled_time
                                      = o.departure_date[1] - 60 * x.hours_before
                    ELSE AddedFor(x) = {}]_vars

\* One recipient's reminder would already be due and has no row, while the
\* other recipient has its reminder sixteen hours from now.
C11_Witness ==
    \E x, y \in subscriptions :
        /\ x.is_active /\ x.notify_reminders /\ x.hours_before = 48
        /\ {n \in notifications : n.chat_id = x.chat_id} = {}
        /\ y.is_active /\ y.notify_reminders /\ y.hours_before = 24
        /\ \E n \in notifications :
              /\ n.chat_id = y.chat_id /\ n.notification_type = "reminder"
              /\ n.scheduled_time = Hours(40) - Hours(24)
              /\ n.scheduled_time > now

\* C12: however often check_and_create_notifications runs while a milestone
\* is inside the horizon, there is at most one reminder row and at most one
\* event row for each recipient, order and milestone.
C12_OneRowPerMilestone ==
    \A n, m \in notifications :
        (/\ n.notification_type \in {"event", "reminder"}
         /\ n.notification_type = m.notification_type
         /\ n.chat_id = m.chat_id
         /\ n.order_number = m.order_number
         /\ n.event_type = m.event_type) => n = m

\* The step adds rows of the given type for recipients of `to` only.
AddedOnlyFor(to, type) ==
    /\ notifications \subseteq notifications'
    /\ \A n \in Added :
          /\ n.notification_type = type
          /\ ~n.sent
          /\ \E x \in to : n.chat_id = x.chat_id

\* The step adds exactly one row, scheduled at when, for each recipient of `to`.
AddedOnePerRecipient(to, when) ==
    /\ \A x \in to : Cardinality(AddedFor(x)) = 1
    /\ \A n \in Added : n.scheduled_time = when

\* C13: the create_* operations add rows only for active subscriptions whose
\* matching notify flag is true; an event adds exactly one row per such
\* subscription scheduled at the event's timestamp, an alert exactly one per
\* such subscription scheduled at now.
C13_FanOutEligibility ==
    [][\A o \in orders :
          /\ create_event_notification(o, "departure", o.departure_date[1], FALSE) =>
                LET to == {x \in subscriptions : x.is_active /\ x.notify_events}
                IN  /\ AddedOnlyFor(to, "event")
                    /\ AddedOnePerRecipient(to, o.departure_date[1])
          /\ create_reminder_notification(o, "departure", o.departure_date[1], FALSE) =>
                AddedOnlyFor({x \in subscriptions : x.is_active /\ x.notify_reminders},
                             "reminder")
          /\ create_alert_notification(o, "status_change", FALSE) =>
                LET to == {x \in subscriptions : x.is_active /\ x.notify_alerts}
                IN  /\ AddedOnlyFor(to, "alert")
                    /\ AddedOnePerRecipient(to, now)]_vars

\* One recipient has unsubscribed and has no row; the other has one event at
\* the departure and one alert at the time of the call.
C13_Witness ==
    \E x, y \in subscriptions :
        /\ ~x.is_active /\ x.notify_events
        /\ {n \in notifications : n.chat_id = x.chat_id} = {}
        /\ y.is_active /\ y.notify_events /\ y.notify_alerts
        /\ \E n, m \in notifications :
              /\ n.chat_id = y.chat_id /\ n.notification_type = "event"
              /\ n.scheduled_time = Hours(40)
              /\ m.chat_id = y.chat_id /\ m.notification_type = "alert"
              /\ m.scheduled_time = now

(***************************************************************************)
(* Delivery sweep                                                          *)
(***************************************************************************)
\* C14: get_upcoming_notifications at time now returns exactly the
\* notifications that are not sent and are scheduled no earlier than now and
\* no later than five minutes after now.
C14_DueWindow ==
    get_upcoming_notifications(notifications, now, FALSE)
        = {n \in notifications :
              /\ n.sent = FALSE
              /\ now <= n.scheduled_time
              /\ n.scheduled_time <= now + 5}

\* A pending row at the far end of the window is returned; a sent row inside
\* the window is not.
C14_Witness ==
    \E n, m \in notifications :
        /\ ~n.sent /\ n.scheduled_time = now + 5
        /\ m.sent /\ m.scheduled_time >= now /\ m.scheduled_time < now + 5
        /\ get_upcoming_notifications(notifications, now, FALSE) = {n}

\* C15: a pending notification whose scheduled_time passed more than five
\* minutes ago is still returned by get_upcoming_notifications.
C15_OverdueStillReturned ==
    \A n \in notifications :
        (~n.sent /\ n.scheduled_time + 5 < now) =>
            n \in get_upcoming_notifications(notifications, now, FALSE)

(***************************************************************************)
(* Subscription registry                                                   *)
(***************************************************************************)
\* The notify flags and hours_before of a row.
Preferences(x) ==
    <<x.notify_events, x.notify_reminders, x.notify_alerts, x.hours_before>>

\* C16: a successful subscribe_user(c) leaves exactly one row for c, which is
\* active; for an unknown recipient the row is new with all notify flags true
\* and hours_before 24; for an existing row the notify flags and hours_before
\* stay as they were, so a second call changes nothing that the first one
\* set; no other recipient's row changes.
C16_SubscribeIdempotent ==
    [][\A c \in Recipients :
          subscribe_user(c, FALSE) =>
              LET before == SubscriptionOf(subscriptions, c)
                  after == SubscriptionOf(subscriptions', c)
              IN  /\ Cardinality(after) = 1
                  /\ \A x \in subscriptions : x.chat_id # c => x \in subscriptions'
                  /\ Cardinality(subscriptions')
                        = Cardinality(subscriptions) + (IF before = {} THEN 1 ELSE 0)
                  /\ \A y \in after :
                        /\ y.is_active
                        /\ IF before = {}
                           THEN Preferences(y) = <<TRUE, TRUE, TRUE, 24>>
                           ELSE \A x \in before :
                                   y.id = x.id /\ Preferences(y) = Preferences(x)]_vars

\* One recipient is subscribed with preferences that are not the defaults,
\* the other with the defaults.
C16_Witness ==
    \E x, y \in subscriptions :
        /\ x.is_active /\ Preferences(x) = <<TRUE, TRUE, FALSE, 48>>
        /\ y.is_active /\ Preferences(y) = <<TRUE, TRUE, TRUE, 24>>
        /\ returned

\* The recipients that have a subscription row.
Subscribers(subs) == {x.chat_id : x \in subs}

C18_OneRowPerChatId ==
    \A x, y \in subscriptions : x.chat_id = y.chat_id => x = y

\* A subscribe_user call found no row for its recipient, and the row of a
\* concurrent call for the same recipient has been committed since.
C18_Witness ==
    \E p \in Workers :
        /\ pending[p] # NoCall
        /\ pending[p].existing = {}
        /\ SubscriptionOf(subscriptions, pending[p].chat_id[1]) # {}

\* C19: a successful update_user_settings(c, settings) changes only the
\* settings of c whose keys are present and leaves every other setting of c
\* and every other subscription as it was; a key that is not a subscription
\* setting causes no change and no error; for a recipient without a row the
\* call returns False and adds no row.
C19_OnlyGivenSettingsChange ==
    [][\A c \in Recipients, st \in RegistrySettings :
          update_user_settings(c, st, FALSE) =>
              LET before == SubscriptionOf(subscriptions, c)
              IN  IF before = {}
                  THEN ~returned' /\ subscriptions' = subscriptions
                  ELSE /\ returned'
                       /\ \A x \in subscriptions : x.chat_id # c => x \in subscriptions'
                       /\ Cardinality(subscriptions') = Cardinality(subscriptions)
                       /\ \A x \in before :
                             \E y \in subscriptions' :
                                 /\ y.id = x.id
                                 /\ y.chat_id = x.chat_id
                                 /\ \A k \in SubscriptionSettings :
                                       y[k] = IF k \in DOMAIN st THEN st[k] ELSE x[k]]_vars

(***************************************************************************)
(* The bot's sweeps                                                        *)
(***************************************************************************)
\* The positions of the attempts to send order n's text to recipient a.
AttemptsTo(log, a, n) ==
    {i \in DOMAIN log : log[i].chat_id = a /\ log[i].order_number = n}

\* Every row of `due` was attempted exactly once for each configured
\* recipient, whichever sends failed, each failure is on record, and nothing
\* else was attempted.
SweepCompleted(log, due, fails) ==
    /\ \A r \in due, a \in {"a1", "a2"} :
          /\ Cardinality(AttemptsTo(log, a, r.order_number)) = 1
          /\ \A i \in AttemptsTo(log, a, r.order_number) :
                log[i].ok = (<<a, r.order_number>> \notin fails)
    /\ Len(log) = 2 * Cardinality(due)

\* C20: in check_new_orders and in check_upcoming_events a failed send to one
\* recipient does not end the sweep: every other configured recipient is
\* still attempted for the same notification, every remaining notification
\* is still processed, and the failed send is logged and attempted once only.
C20_SendFailureIsolated ==
    [][\A fails \in SendFailures :
          /\ check_new_orders(FALSE, fails) =>
                SweepCompleted(sends', {r \in orders : r.sync_timestamp + 5 >= now}, fails)
          /\ check_upcoming_events(FALSE, fails) =>
                SweepCompleted(sends',
                               {r \in orders :
                                   /\ r.status \notin {None, Some("Completed"),
                                                        Some("Cancelled")}
                                   /\ r.departure_date # None
                                   /\ r.departure_date[1] - now >= 60
                                   /\ r.departure_date[1] - now <= 24 * 60},
                               fails)]_vars

\* The first send of a sweep failed; the other recipient was still attempted
\* for the same order, and both recipients for the next order.
C20_Witness ==
    /\ Len(sends) = 4
    /\ ~sends[1].ok
    /\ sends[2].ok
    /\ sends[2].order_number = sends[1].order_number
    /\ sends[2].chat_id # sends[1].chat_id
    /\ sends[3].order_number # sends[1].order_number
    /\ sends[4].order_number = sends[3].order_number

(***************************************************************************)
(* Order lookup                                                            *)
(***************************************************************************)
\* C29: GET /api/orders/{order_number} with a valid api-key answers with the
\* order when the number is stored and with 404 (not 500) when it is not;
\* either way the stored orders stay as they were.
C29_LookupAnswers ==
    [][\A p \in Workers :
          (/\ Completed(p)
           /\ req'[p].ep = "api_get_order"
           /\ req'[p].key = Some(API_KEY)
           /\ ~resp'[p].fault) =>
              /\ orders' = orders
              /\ IF RowsByNumber(orders, SyncNumber(p)) # {}
                 THEN /\ resp'[p].code = "200"
                      /\ resp'[p].result = RowsByNumber(orders, SyncNumber(p))
                 ELSE resp'[p].code = "404"]_vars

(***************************************************************************)
(* Order status and statistics                                             *)
(***************************************************************************)
\* C22: in every reachable state the status of every stored order is one of
\* New, In Progress CHN, In Transit CHN-IR, In Progress IR, In Transit IR-TKM,
\* Completed and Cancelled.
C22_StatusEnumerated ==
    \A r \in orders :
        r.status \in {Some("New"), Some("In Progress CHN"), Some("In Transit CHN-IR"),
                      Some("In Progress IR"), Some("In Transit IR-TKM"),
                      Some("Completed"), Some("Cancelled")}

\* C23: every sync that updates an existing order, on every entry point,
\* leaves that order with updated_at equal to the current time (so that an
\* order a sync has just set to Completed falls inside any trailing window
\* of the statistics).
C23_UpdateStampsUpdatedAt ==
    [][\A p \in Workers :
          (/\ SyncCompleted(p, SyncEndpoints)
           /\ resp'[p].status = "success"
           /\ RowsByNumber(orders, SyncNumber(p)) # {}) =>
              \A r \in RowsByNumber(orders', SyncNumber(p)) : r.updated_at = now]_vars

\* C24: get_statistics(days) returns active_orders equal to the number of all
\* stored orders whose status is New, In Progress CHN, In Transit CHN-IR,
\* In Progress IR or In Transit IR-TKM, whatever their timestamps,
\* total_orders equal to the number of orders created within the last `days`
\* days, and completed_orders equal to the number of Completed orders updated
\* within that window.
C24_StatisticsWindows ==
    [][\A days \in StatDays, adapts \in BOOLEAN :
          bot_get_statistics("w1", days, Some(API_KEY), adapts) =>
              resp'["w1"].result =
                  {[total_orders |->
                        Cardinality({r \in orders : r.created_at >= now - 1440 * days}),
                    completed_orders |->
                        Cardinality({r \in orders : /\ r.status = Some("Completed")
                                                    /\ r.updated_at >= now - 1440 * days}),
                    active_orders |->
                        Cardinality({r \in orders :
                            r.status \in {Some("New"), Some("In Progress CHN"),
                                          Some("In Transit CHN-IR"), Some("In Progress IR"),
                                          Some("In Transit IR-TKM")}})]}]_vars

(***************************************************************************)
(* Search                                                                  *)
(***************************************************************************)
\* text occurs in str, letter case aside.
Occurs(text, str) ==
    \E i \in 1..(Len(str) + 1) :
        /\ i + Len(text) - 1 <= Len(str)
        /\ \A j \in 1..Len(text) : Lower(text[j]) = Lower(str[i + j - 1])

\* C25: search_orders(text) returns exactly the stored orders in which text
\* is a case-insensitive substring of one of the searched fields.
C25_SearchIsSubstring ==
    [][\A text \in SearchTexts :
          bot_search_orders("w2", text, FALSE) =>
              resp'["w2"].result =
                  {r \in orders :
                      \E k \in {"order_number", "client_name", "goods_type"} :
                          r[k] # None /\ Occurs(Chars(text), Chars(r[k][1]))}]_vars

(***************************************************************************)
(* Delivery of alerts                                                      *)
(***************************************************************************)
\* C26: every alert created by create_alert_notification is eventually
\* returned by a delivery sweep, as long as sweeps keep running and the row
\* is not marked sent.
C26_AlertEventuallyReturned ==
    \A id \in 1..MaxNotifications :
        (\E n \in notifications : n.id = id /\ n.notification_type = "alert" /\ ~n.sent)
            ~> (id \in delivered)

(***************************************************************************)
(* Reminders from the periodic batch sweep                                 *)
(***************************************************************************)
\* C28: for every active subscription with notify_reminders and every
\* milestone more than hours_before hours in the future, the periodic batch
\* sweeps eventually create a reminder row for that recipient and milestone,
\* whatever hours_before is.
C28_ReminderEventuallyCreated ==
    \A c \in ChatIds, n \in OrderNumbers :
        (/\ \E x \in subscriptions :
                /\ x.chat_id = c /\ x.is_active /\ x.notify_reminders
                /\ \E o \in orders :
                      /\ o.order_number = Some(n)
                      /\ o.departure_date # None
                      /\ o.departure_date[1] - 60 * x.hours_before > now)
            ~> (\E r \in notifications :
                    /\ r.notification_type = "reminder"
                    /\ r.chat_id = c
                    /\ r.order_number = Some(n)
                    /\ r.event_type = "departure")

(***************************************************************************)
(* Reminders of upcoming events                                            *)
(***************************************************************************)
\* C27: in check_upcoming_events every order the query selects that has a
\* milestone between 1 and 24 hours ahead gets a reminder, whatever its other
\* milestone dates are.
C27_UpcomingMilestoneReminded ==
    [][check_upcoming_events(FALSE, {}) =>
          \A r \in orders :
              (/\ r.status \notin {None, Some("Completed"), Some("Cancelled")}
               /\ \E k \in {"departure_date", "arrival_iran_date"} :
                     /\ r[k] # None
                     /\ r[k][1] - now >= 60
                     /\ r[k][1] - now <= 24 * 60) =>
                  \E i \in DOMAIN sends' :
                      /\ sends'[i].order_number = r.order_number
                      /\ sends'[i].kind = "reminder"]_vars

(***************************************************************************)
(* The periodic jobs                                                       *)
(***************************************************************************)
\* C21: a run of a periodic sweep never starts while a run of that sweep or
\* of the other sweep is still in progress.
C21_SweepsNonReentrant ==
    [][\A j \in Jobs, f \in BOOLEAN :
          job_start(j, f) => \A k \in Jobs : running[k] = None]_vars

(***************************************************************************)
(* Announcement of synced orders                                           *)
(***************************************************************************)
\* The number of messages an admin has got about the sync an order is stored
\* with.
Announcements(r, a) ==
    Cardinality({c \in chat : /\ c.chat_id = a
                              /\ c.order_number = r.order_number
                              /\ c.sync_timestamp = r.sync_timestamp})

\* C30: with check_new_orders running every five minutes, every successful
\* sync is announced to each configured admin exactly once: no run announces
\* a sync that an earlier run has announced, and once a sync is older than
\* the window of every run to come it has been announced.
C30_AnnouncedExactlyOnce ==
    \A r \in orders, a \in {"a1", "a2"} :
        /\ Announcements(r, a) <= 1
        /\ r.sync_timestamp + NewOrderMinutes < now => Announcements(r, a) = 1
====
